---- MODULE Spec2Model ----
(***************************************************************************)
(* Client session and task-list state of react-zero-to-hero.               *)
(*                                                                         *)
(* Task list: the three TodoList implementations of the repository         *)
(*   "useReducerHook"  src/src/components/TodoList.tsx                     *)
(*                     (useLocalStorage + useReducer)                      *)
(*   "useState"        src/unnamed/part_006 (useState + two effects)       *)
(*   "useReducerLoad"  src/unnamed/part_001:150-222 (useReducer with LOAD) *)
(* Session: the Redux auth slice src/src/store/authSlice.ts and the        *)
(* AuthProvider context src/unnamed/part_004, both over localStorage.      *)
(*                                                                         *)
(* A value that may be null (string | null) is a sequence of length 0 or 1 *)
(* : <<>> is null, <<s>> is the string s.                                  *)
(***************************************************************************)
EXTENDS Integers, Sequences, FiniteSets, TLC

\* ------------------------------------------------------------------ bounds
MaxLen == 3         \* longest task list explored
MaxClock == 3       \* last reading of Date.now() explored

\* ------------------------------------------------------- strings and JSON
NullRef == <<>>
Some(s) == <<s>>

\* JavaScript truthiness of a string | null value: null and "" are falsy.
Truthy(v) == v # NullRef /\ v[1] # ""

StartsWith(s, p) == Len(s) >= Len(p) /\ SubSeq(s, 1, Len(p)) = p
Drop(s, n) == SubSeq(s, n + 1, Len(s))

\* String.prototype.trim, on the blank the model's inputs use.
RECURSIVE TrimLeft(_)
TrimLeft(s) == IF StartsWith(s, " ") THEN TrimLeft(Drop(s, 1)) ELSE s
RECURSIVE TrimRight(_)
TrimRight(s) ==
  IF Len(s) > 0 /\ SubSeq(s, Len(s), Len(s)) = " "
  THEN TrimRight(SubSeq(s, 1, Len(s) - 1)) ELSE s
Trim(s) == TrimRight(TrimLeft(s))

DigitChars == "0123456789"
DigitOf(d) == SubSeq(DigitChars, d + 1, d + 1)
IsDigit(c) == \E d \in 0..9 : DigitOf(d) = c
DigitVal(c) == CHOOSE d \in 0..9 : DigitOf(d) = c

\* JSON.stringify of a non-negative integer.
RECURSIVE NumberToJSON(_)
NumberToJSON(n) ==
  IF n < 10 THEN DigitOf(n) ELSE NumberToJSON(n \div 10) \o DigitOf(n % 10)

BoolToJSON(b) == IF b THEN "true" ELSE "false"

\* JSON.stringify of a string without characters that need escaping.
StringToJSON(s) == "\"" \o s \o "\""

\* JSON.stringify of one Todo: keys in insertion order id, text, completed.
TodoToJSON(t) ==
  "{\"id\":" \o NumberToJSON(t.id) \o ",\"text\":" \o StringToJSON(t.text)
    \o ",\"completed\":" \o BoolToJSON(t.completed) \o "}"

RECURSIVE TodosToJSON(_)
TodosToJSON(l) ==
  IF l = <<>> THEN ""
  ELSE IF Len(l) = 1 THEN TodoToJSON(l[1])
  ELSE TodoToJSON(l[1]) \o "," \o TodosToJSON(Tail(l))

\* JSON.stringify(todos) for a Todo[].
JSONstringify(l) == "[" \o TodosToJSON(l) \o "]"

\* The parser reads the grammar JSON.stringify writes for a Todo[]; any other
\* text is a SyntaxError (ok = FALSE).
RECURSIVE ParseDigits(_, _)
ParseDigits(s, acc) ==
  IF Len(s) > 0 /\ IsDigit(SubSeq(s, 1, 1))
  THEN ParseDigits(Drop(s, 1), acc * 10 + DigitVal(SubSeq(s, 1, 1)))
  ELSE [value |-> acc, rest |-> s]

ParseNumber(s) ==
  IF Len(s) > 0 /\ IsDigit(SubSeq(s, 1, 1))
  THEN [ok |-> TRUE] @@ ParseDigits(s, 0)
  ELSE [ok |-> FALSE, value |-> 0, rest |-> s]

RECURSIVE ScanString(_, _)
ScanString(s, acc) ==
  IF Len(s) = 0 THEN [ok |-> FALSE, value |-> acc, rest |-> s]
  ELSE IF SubSeq(s, 1, 1) = "\"" THEN [ok |-> TRUE, value |-> acc, rest |-> Drop(s, 1)]
  ELSE ScanString(Drop(s, 1), acc \o SubSeq(s, 1, 1))

ParseString(s) ==
  IF StartsWith(s, "\"") THEN ScanString(Drop(s, 1), "")
  ELSE [ok |-> FALSE, value |-> "", rest |-> s]

ParseBool(s) ==
  IF StartsWith(s, "true") THEN [ok |-> TRUE, value |-> TRUE, rest |-> Drop(s, 4)]
  ELSE IF StartsWith(s, "false") THEN [ok |-> TRUE, value |-> FALSE, rest |-> Drop(s, 5)]
  ELSE [ok |-> FALSE, value |-> FALSE, rest |-> s]

NoTodo == [id |-> 0, text |-> "", completed |-> FALSE]

ParseTodo(s) ==
  IF ~StartsWith(s, "{\"id\":") THEN [ok |-> FALSE, value |-> NoTodo, rest |-> s]
  ELSE LET n == ParseNumber(Drop(s, 6)) IN
  IF ~(n.ok /\ StartsWith(n.rest, ",\"text\":")) THEN [ok |-> FALSE, value |-> NoTodo, rest |-> s]
  ELSE LET t == ParseString(Drop(n.rest, 8)) IN
  IF ~(t.ok /\ StartsWith(t.rest, ",\"completed\":")) THEN [ok |-> FALSE, value |-> NoTodo, rest |-> s]
  ELSE LET b == ParseBool(Drop(t.rest, 13)) IN
  IF ~(b.ok /\ StartsWith(b.rest, "}")) THEN [ok |-> FALSE, value |-> NoTodo, rest |-> s]
  ELSE [ok |-> TRUE,
        value |-> [id |-> n.value, text |-> t.value, completed |-> b.value],
        rest |-> Drop(b.rest, 1)]

RECURSIVE ParseTodos(_, _)
ParseTodos(s, acc) ==
  LET t == ParseTodo(s) IN
  IF ~t.ok THEN [ok |-> FALSE, value |-> <<>>]
  ELSE IF t.rest = "]" THEN [ok |-> TRUE, value |-> Append(acc, t.value)]
  ELSE IF StartsWith(t.rest, ",") THEN ParseTodos(Drop(t.rest, 1), Append(acc, t.value))
  ELSE [ok |-> FALSE, value |-> <<>>]

\* JSON.parse(stored) for a stored Todo[]; ok = FALSE models the SyntaxError.
JSONparse(s) ==
  IF s = "[]" THEN [ok |-> TRUE, value |-> <<>>]
  ELSE IF StartsWith(s, "[") THEN ParseTodos(Drop(s, 1), <<>>)
  ELSE [ok |-> FALSE, value |-> <<>>]

\* ------------------------------------------------------------ task list
\* Variant of todoReducer whose TOGGLE marks the task completed instead of
\* flipping the flag.
todoReducer_ToggleSetsCompleted(st, action, now) ==
  CASE action.type = "ADD" ->
         Append(st, [id |-> now, text |-> action.payload, completed |-> FALSE])
    [] action.type = "TOGGLE" ->
         [i \in DOMAIN st |->
            IF st[i].id = action.payload
            THEN [st[i] EXCEPT !.completed = TRUE]
            ELSE st[i]]
    [] action.type = "REMOVE" ->
         SelectSeq(st, LAMBDA todo : todo.id # action.payload)
    [] action.type = "LOAD" -> action.payload
    [] OTHER -> st

\* Variant of todoReducer whose LOAD appends the payload to the current list
\* instead of replacing it.
todoReducer_LoadAppends(st, action, now) ==
  CASE action.type = "ADD" ->
         Append(st, [id |-> now, text |-> action.payload, completed |-> FALSE])
    [] action.type = "TOGGLE" ->
         [i \in DOMAIN st |->
            IF st[i].id = action.payload
            THEN [st[i] EXCEPT !.completed = ~st[i].completed]
            ELSE st[i]]
    [] action.type = "REMOVE" ->
         SelectSeq(st, LAMBDA todo : todo.id # action.payload)
    [] action.type = "LOAD" -> st \o action.payload
    [] OTHER -> st

\* Variant of todoReducer whose ADD puts the new task in front of the list.
todoReducer_AddPrepends(st, action, now) ==
  CASE action.type = "ADD" ->
         <<[id |-> now, text |-> action.payload, completed |-> FALSE]>> \o st
    [] action.type = "TOGGLE" ->
         [i \in DOMAIN st |->
            IF st[i].id = action.payload
            THEN [st[i] EXCEPT !.completed = ~st[i].completed]
            ELSE st[i]]
    [] action.type = "REMOVE" ->
         SelectSeq(st, LAMBDA todo : todo.id # action.payload)
    [] action.type = "LOAD" -> action.payload
    [] OTHER -> st

\* todoReducer of TodoList.tsx (ADD, TOGGLE, REMOVE) and of the LOAD variant;
\* now is the value Date.now() returns inside the ADD case.
todoReducer(st, action, now) ==
  CASE action.type = "ADD" ->
         Append(st, [id |-> now, text |-> action.payload, completed |-> FALSE])
    [] action.type = "TOGGLE" ->
         [i \in DOMAIN st |->
            IF st[i].id = action.payload
            THEN [st[i] EXCEPT !.completed = ~st[i].completed]
            ELSE st[i]]
    [] action.type = "REMOVE" ->
         SelectSeq(st, LAMBDA todo : todo.id # action.payload)
    [] action.type = "LOAD" -> action.payload
    [] OTHER -> st

\* Variant of addTodo that forgets to spread the current list.
addTodo_DropsList(todos, input, now) ==
  << [id |-> now, text |-> input, completed |-> FALSE] >>

\* The handlers of the useState variant; each returns the argument of setTodos.
addTodo(todos, input, now) ==
  Append(todos, [id |-> now, text |-> input, completed |-> FALSE])

toggleComplete(todos, id) ==
  [i \in DOMAIN todos |->
     IF todos[i].id = id
     THEN [todos[i] EXCEPT !.completed = ~todos[i].completed]
     ELSE todos[i]]

\* Variant of removeTodo that takes its argument for a position in the list.
removeTodo_ByPosition(todos, id) ==
  IF id \in DOMAIN todos
  THEN SubSeq(todos, 1, id - 1) \o SubSeq(todos, id + 1, Len(todos))
  ELSE todos

\* Variant of removeTodo that also drops every task after the first match.
removeTodo_DropsRest(todos, id) ==
  IF \E i \in DOMAIN todos : todos[i].id = id
  THEN SubSeq(todos, 1,
              (CHOOSE i \in DOMAIN todos :
                 /\ todos[i].id = id
                 /\ \A j \in 1..(i - 1) : todos[j].id # id) - 1)
  ELSE todos

removeTodo(todos, id) == SelectSeq(todos, LAMBDA todo : todo.id # id)

Variants == {"useReducerHook", "useState", "useReducerLoad"}

\* Inputs of the text field: empty, blank, and a text that trim() changes.
Texts == {"", " ", " b"}

StoredList == << [id |-> 1, text |-> "a", completed |-> TRUE] >>

\* First reading of Date.now(): later than the creation of the persisted task.
StartClock == StoredList[1].id + 1

\* What localStorage may hold under 'todos' when the page is first opened:
\* nothing, an empty string, a truncated payload, and saved lists.
InitStored ==
  { NullRef, Some(""), Some("[{\"id\":1,"),
    Some(JSONstringify(<<>>)), Some(JSONstringify(StoredList)) }

VARIABLES
  variant,     \* which TodoList implementation is mounted
  strictMode,  \* React.StrictMode: mount effects run twice
  storage,     \* localStorage: key -> string | null
  clock,       \* Date.now()
  pc,          \* "boot", "effects", "rerender", "ready", "crashed"
  passes,      \* mount effect passes still to run
  value,       \* useLocalStorage's value (todos of TodoList.tsx)
  state,       \* the rendered list: reducer state, or todos of useState
  pending,     \* state updates queued by effects for the next render
  lastOp,      \* history: the last transition [type, id, text]
  run,         \* history: 1 or 2 consecutive occurrences of lastOp
  runBase,     \* history: the list before that run began
  before,      \* history: the list before lastOp
  addRun,      \* history: number of consecutive ADDs just applied
  addBase,     \* history: length of the list before those ADDs
  bootStored,  \* history: the 'todos' entry when the page was loaded, kept
               \* until the first click
  lastSubmit,  \* history: "accepted"/"rejected" click on Add Todo, or "none"
  submitBase,  \* history: the list when Add Todo was last clicked
  auth,        \* Redux auth slice [token, isAuthenticated]
  ctxToken,    \* AuthProvider's token state
  authOp,      \* history: last session operation [type, token]; token is
               \* the operation's argument
  authPrev,    \* history: the session operation before it
  sessionBefore, \* history: the session before authOp [auth, ctx, stored,
               \* cookie]
  cookie,      \* the browser holds the server's authToken cookie
  net,         \* network calls in flight: validate and logout are "idle"
               \* or "pending", login is the set of bodies posted; reply is
               \* history, the last answer of POST /login [body, status,
               \* setCookie]; guarded is history, the last request to a
               \* route behind authenticateUser [cookie, status, handled]
  authCheck,   \* what useAuthCheck dispatches after a successful probe
  app,         \* which login form, route guard and logout are wired together
  path,        \* the route the router shows
  formPc       \* login form: "idle", or "pending" on dummyApiLogin

histVars == <<lastOp, run, runBase, before, addRun, addBase,
              bootStored, lastSubmit, submitBase>>
todoVars == <<variant, strictMode, clock, pc, passes, value, state, pending,
              histVars>>
authVars == <<auth, ctxToken, authOp, authPrev, sessionBefore>>
extraVars == <<cookie, net, authCheck, app, path, formPc>>
sessVars == <<authVars, extraVars>>
vars == <<todoVars, authVars, extraVars, storage>>

getItem(key) == storage[key]
setItem(key, v) == [storage EXCEPT ![key] = Some(v)]
removeItem(key) == [storage EXCEPT ![key] = NullRef]

NoOp == [type |-> "NONE", id |-> 0, text |-> ""]
ListOps == {"ADD", "TOGGLE", "REMOVE"}

\* History bookkeeping for a transition op that turns the list into st2.
Record(op, st2) ==
  /\ lastOp' = op
  /\ before' = state
  /\ bootStored' = IF op.type = "LOAD" THEN bootStored ELSE NullRef
  /\ lastSubmit' = IF op.type = "ADD" THEN "accepted" ELSE "none"
  /\ submitBase' = IF op.type = "ADD" THEN state ELSE <<>>
  /\ IF op = lastOp /\ run = 1 /\ op.type # "ADD"
     THEN run' = 2 /\ runBase' = runBase
     ELSE run' = 1 /\ runBase' = state
  /\ IF op.type = "ADD"
     THEN IF addRun > 0
          THEN addRun' = addRun + 1 /\ addBase' = addBase
          ELSE addRun' = 1 /\ addBase' = Len(state)
     ELSE addRun' = 0 /\ addBase' = Len(st2)

ResetHistory ==
  /\ lastOp' = NoOp /\ run' = 0 /\ runBase' = <<>> /\ before' = <<>>
  /\ addRun' = 0 /\ addBase' = 0
  /\ bootStored' = getItem("todos")
  /\ lastSubmit' = "none" /\ submitBase' = <<>>

\* useLocalStorage's useState initializer: the stored value parsed, or the
\* initial value when nothing truthy is stored.  ok = FALSE: JSON.parse threw.
useLocalStorageInit(key, initialValue) ==
  LET stored == getItem(key) IN
  IF Truthy(stored) THEN JSONparse(stored[1])
  ELSE [ok |-> TRUE, value |-> initialValue]

\* First render of TodoList.
Render ==
  /\ pc = "boot"
  /\ IF variant = "useReducerHook"
     THEN LET init == useLocalStorageInit("todos", <<>>) IN
          IF init.ok
          THEN /\ value' = init.value
               /\ state' = init.value      \* useReducer(todoReducer, todos)
               /\ pc' = "effects"
          ELSE /\ pc' = "crashed"
               /\ UNCHANGED <<value, state>>
     ELSE /\ state' = <<>>                 \* useState([]) / useReducer(.., [])
          /\ pc' = "effects"
          /\ UNCHANGED value
  /\ passes' = IF strictMode THEN 2 ELSE 1
  /\ UNCHANGED <<variant, strictMode, clock, pending, storage,
                 histVars, sessVars>>

\* One pass over the mount effects, in declaration order.
MountEffects ==
  /\ pc = "effects"
  /\ IF variant = "useReducerHook"
     THEN \* useLocalStorage: setItem(key, JSON.stringify(value))
          /\ storage' = setItem("todos", JSONstringify(value))
          /\ pending' = pending
          /\ pc' = IF passes = 1 THEN "rerender" ELSE "effects"
     ELSE LET savedTodos == getItem("todos")
              parsed == JSONparse(savedTodos[1]) IN
          IF Truthy(savedTodos) /\ ~parsed.ok
          THEN \* JSON.parse throws inside the load effect
               /\ pc' = "crashed"
               /\ UNCHANGED <<storage, pending>>
          ELSE /\ pending' = IF Truthy(savedTodos)
                             THEN Append(pending, parsed.value)
                             ELSE pending
               \* save effect, with the todos of the first render
               /\ storage' = setItem("todos", JSONstringify(state))
               /\ pc' = IF passes = 1 THEN "rerender" ELSE "effects"
  /\ passes' = passes - 1
  /\ UNCHANGED <<variant, strictMode, clock, value, state,
                 histVars, sessVars>>

\* The render that applies the updates the mount effects queued (setTodos or
\* dispatch LOAD, in order), followed by the save effect when todos changed.
Rerender ==
  /\ pc = "rerender"
  /\ IF pending = <<>>
     THEN UNCHANGED <<state, storage, histVars>>
     ELSE LET loaded ==
                IF variant = "useReducerLoad"
                THEN todoReducer(state,
                       [type |-> "LOAD", payload |-> pending[Len(pending)]], clock)
                ELSE pending[Len(pending)]
          IN /\ state' = loaded
             /\ storage' = setItem("todos", JSONstringify(loaded))
             /\ Record([type |-> "LOAD", id |-> 0, text |-> ""], loaded)
  /\ pending' = <<>>
  /\ pc' = "ready"
  /\ UNCHANGED <<variant, strictMode, clock, passes, value, sessVars>>

\* What a list transition does besides changing the list: the useState and
\* LOAD variants re-run the save effect (todos changed); TodoList.tsx never
\* calls setTodos, so its useLocalStorage effect does not run again.
Commit(op, st2) ==
  /\ state' = st2
  /\ storage' = IF variant = "useReducerHook" THEN storage
                ELSE setItem("todos", JSONstringify(st2))
  /\ Record(op, st2)
  /\ UNCHANGED <<variant, strictMode, clock, pc, passes, value, pending, sessVars>>

\* Variant of acceptsInput that tests the raw text.
acceptsInput_NoTrim(input) == input # ""

\* The guard of addTodo: the trimmed text of the input field is truthy.
acceptsInput(input) == Trim(input) # ""

\* Click on "Add Todo" with text in the input field.
AddTodo(text) ==
  /\ pc = "ready"
  /\ Len(state) < MaxLen
  /\ IF ~acceptsInput(text)
     THEN \* early return: nothing is dispatched
          /\ lastSubmit' = "rejected"
          /\ submitBase' = state
          /\ bootStored' = NullRef
          /\ UNCHANGED <<variant, strictMode, clock, pc, passes, value, state,
                         pending, lastOp, run, runBase, before, addRun,
                         addBase, sessVars, storage>>
     ELSE Commit([type |-> "ADD", id |-> clock, text |-> text],
                 IF variant = "useState"
                 THEN addTodo(state, text, clock)
                 ELSE todoReducer(state, [type |-> "ADD", payload |-> text], clock))

\* Click on a task's toggle button.
Toggle(id) ==
  /\ pc = "ready"
  /\ Commit([type |-> "TOGGLE", id |-> id, text |-> ""],
            IF variant = "useState"
            THEN toggleComplete(state, id)
            ELSE todoReducer(state, [type |-> "TOGGLE", payload |-> id], clock))

\* Click on a task's remove button.
Remove(id) ==
  /\ pc = "ready"
  /\ Commit([type |-> "REMOVE", id |-> id, text |-> ""],
            IF variant = "useState"
            THEN removeTodo(state, id)
            ELSE todoReducer(state, [type |-> "REMOVE", payload |-> id], clock))

\* Time passes: Date.now() returns a later reading.
Tick ==
  /\ clock < MaxClock
  /\ clock' = clock + 1
  /\ UNCHANGED <<variant, strictMode, pc, passes, value, state, pending,
                 histVars, sessVars, storage>>

\* The page is reloaded: memory is lost, localStorage is kept.
Reload ==
  /\ pc \in {"ready", "crashed"}
  /\ pc' = "boot"
  /\ passes' = 0 /\ value' = <<>> /\ state' = <<>> /\ pending' = <<>>
  /\ ResetHistory
  /\ UNCHANGED <<variant, strictMode, clock, sessVars, storage>>

Ids == 1..MaxClock

\* --------------------------------------------------------------- session
\* Tokens the login forms hand to login: the fixed token of LoginForm.tsx and
\* uuidv4() values of the Redux login form.
Tokens == {"fake-jwt-token-12345", "uuid-1", "uuid-2"}

\* initialState of authSlice.ts, evaluated when the store is created.
initialState ==
  [token |-> getItem("authToken"),
   isAuthenticated |-> Truthy(getItem("authToken"))]

\* Variant of login that leaves localStorage alone.
login_NotPersisted(st, payload) ==
  [auth |-> [st EXCEPT !.token = Some(payload), !.isAuthenticated = TRUE],
   storage |-> storage]

\* Reducer login of authSlice.ts: the new slice state and localStorage.
login(st, payload) ==
  [auth |-> [st EXCEPT !.token = Some(payload), !.isAuthenticated = TRUE],
   storage |-> setItem("authToken", payload)]

\* Variant of logout that leaves the stored token in place.
logout_TokenKept(st) ==
  [auth |-> [st EXCEPT !.token = NullRef, !.isAuthenticated = FALSE],
   storage |-> storage]

\* Variant of logout that clears the token but not the flag.
logout_FlagKept(st) ==
  [auth |-> [st EXCEPT !.token = NullRef],
   storage |-> removeItem("authToken")]

\* Variant of logout that blanks the stored token instead of removing it.
logout_StoresEmpty(st) ==
  [auth |-> [st EXCEPT !.token = NullRef, !.isAuthenticated = FALSE],
   storage |-> setItem("authToken", "")]

\* Variant of logout that empties localStorage instead of removing one key.
logout_ClearsStorage(st) ==
  [auth |-> [st EXCEPT !.token = NullRef, !.isAuthenticated = FALSE],
   storage |-> [k \in DOMAIN storage |-> NullRef]]

\* Reducer logout of authSlice.ts: the new slice state and localStorage.
logout(st) ==
  [auth |-> [st EXCEPT !.token = NullRef, !.isAuthenticated = FALSE],
   storage |-> removeItem("authToken")]

\* The effect of AuthProvider, run after every change of its token.
AuthProviderEffect(token) ==
  IF Truthy(token) THEN setItem("authToken", token[1])
  ELSE removeItem("authToken")

NoAuthOp == [type |-> "none", token |-> ""]

Session == [auth |-> auth, ctx |-> ctxToken, stored |-> getItem("authToken"),
            cookie |-> cookie]

AuthRecord(op) ==
  /\ authOp' = op
  /\ authPrev' = authOp
  /\ sessionBefore' = Session

\* dispatch(login(token)) on the Redux store.
Login(t) ==
  /\ auth' = login(auth, t).auth
  /\ storage' = login(auth, t).storage
  /\ AuthRecord([type |-> "login", token |-> t])
  /\ UNCHANGED <<todoVars, extraVars, ctxToken>>

\* dispatch(logout()) on the Redux store.
Logout ==
  /\ auth' = logout(auth).auth
  /\ storage' = logout(auth).storage
  /\ AuthRecord([type |-> "logout", token |-> ""])
  /\ UNCHANGED <<todoVars, extraVars, ctxToken>>

\* login of AuthProvider: setToken(newToken), then the effect.
CtxLogin(t) ==
  /\ ctxToken' = Some(t)
  /\ storage' = AuthProviderEffect(Some(t))
  /\ AuthRecord([type |-> "ctxLogin", token |-> t])
  /\ UNCHANGED <<todoVars, extraVars, auth>>

\* logout of AuthProvider: setToken(null), then the effect.
CtxLogout ==
  /\ ctxToken' = NullRef
  /\ storage' = AuthProviderEffect(NullRef)
  /\ AuthRecord([type |-> "ctxLogout", token |-> ""])
  /\ UNCHANGED <<todoVars, extraVars, auth>>

\* The process restarts over the same localStorage: the store is created
\* again from initialState, AuthProvider reads the token and runs its effect.
Restart ==
  /\ auth' = initialState
  /\ ctxToken' = getItem("authToken")
  /\ storage' = AuthProviderEffect(getItem("authToken"))
  /\ AuthRecord([type |-> "restart", token |-> ""])
  /\ UNCHANGED <<todoVars, extraVars>>

\* ------------------------------------------------------- specifications
TodoBoot ==
  /\ clock = StartClock /\ pc = "boot" /\ passes = 0
  /\ value = <<>> /\ state = <<>> /\ pending = <<>>
  /\ lastOp = NoOp /\ run = 0 /\ runBase = <<>> /\ before = <<>>
  /\ addRun = 0 /\ addBase = 0
  /\ bootStored = getItem("todos")
  /\ lastSubmit = "none" /\ submitBase = <<>>

AuthBoot ==
  /\ auth = initialState
  /\ ctxToken = getItem("authToken")
  /\ authOp = NoAuthOp /\ authPrev = NoAuthOp
  /\ sessionBefore = Session

\* No POST /login has been answered yet.
NoReply == [body |-> [email |-> "", password |-> ""], status |-> 0,
            setCookie |-> FALSE]

\* No request has come to a route behind authenticateUser yet.
NoGuarded == [cookie |-> NullRef, status |-> 0, handled |-> FALSE]

NetIdle == [validate |-> "idle", login |-> {}, logout |-> "idle",
            reply |-> NoReply, guarded |-> NoGuarded]

\* Nothing of the cookie variant, the router or the login form is running.
ExtraIdle ==
  /\ cookie = FALSE /\ net = NetIdle /\ authCheck = "setAuthenticated"
  /\ app = "redux" /\ path = "/" /\ formPc = "idle"

\* Task list: every implementation, with and without StrictMode, over every
\* initial content of the 'todos' entry; nobody is logged in.
InitTodo ==
  /\ variant \in Variants
  /\ strictMode \in BOOLEAN
  /\ \E stored \in InitStored :
       storage = [todos |-> stored, authToken |-> NullRef]
  /\ TodoBoot
  /\ ExtraIdle
  /\ AuthBoot

NextTodo ==
  \/ Render
  \/ MountEffects
  \/ Rerender
  \/ \E text \in Texts : AddTodo(text)
  \/ \E id \in Ids : Toggle(id)
  \/ \E id \in Ids : Remove(id)
  \/ Tick
  \/ Reload

SpecTodo == InitTodo /\ [][NextTodo]_vars

\* Session: both stores over every initial content of the 'authToken' entry;
\* the task list is not mounted.
InitAuth ==
  /\ variant = "useReducerHook"
  /\ strictMode = FALSE
  /\ \E tok \in {NullRef} \cup {Some(t) : t \in Tokens} :
       storage = [todos |-> NullRef, authToken |-> tok]
  /\ TodoBoot
  /\ ExtraIdle
  /\ AuthBoot

NextAuth ==
  \/ \E t \in Tokens : Login(t)
  \/ Logout
  \/ \E t \in Tokens : CtxLogin(t)
  \/ CtxLogout
  \/ Restart

SpecAuth == InitAuth /\ [][NextAuth]_vars

\* Task list and Redux session side by side: the TodoList of every
\* implementation is mounted while login and logout are dispatched, all
\* within one reading of the clock.
InitBoth ==
  /\ variant \in Variants
  /\ strictMode = FALSE
  /\ \E stored \in {NullRef, Some(JSONstringify(StoredList))} :
       storage = [todos |-> stored, authToken |-> NullRef]
  /\ TodoBoot
  /\ ExtraIdle
  /\ AuthBoot

NextBoth ==
  \/ Render
  \/ MountEffects
  \/ Rerender
  \/ \E text \in Texts : AddTodo(text)
  \/ \E id \in Ids : Toggle(id)
  \/ \E id \in Ids : Remove(id)
  \/ Reload
  \/ Login("fake-jwt-token-12345")
  \/ Logout

SpecBoth == InitBoth /\ [][NextBoth]_vars

\* ------------------------------------------------------- cookie variant
\* The action useAuthCheck.ts dispatches; authSlice.ts does not define it.
setAuthenticated(st, flag) == [st EXCEPT !.isAuthenticated = flag]

\* Variant of the .then callback that only logs.
validateThen_LogsOnly(st) == st

\* .then of useAuthCheck.ts: dispatch(setAuthenticated(true)).
validateThen(st) == setAuthenticated(st, TRUE)

\* Variant of the .catch callback that also signs the user out.
validateCatch_ClearsFlag(st) == [st EXCEPT !.isAuthenticated = FALSE]

\* .catch of useAuthCheck: console.log only.
validateCatch(st) == st

\* extraReducers of the cookie slice.
loginUserFulfilled(st) == [st EXCEPT !.isAuthenticated = TRUE]
logoutUserFulfilled(st) == [st EXCEPT !.isAuthenticated = FALSE]

cookieInitialState == [token |-> NullRef, isAuthenticated |-> FALSE]

\* dispatch(loginUser()) posts no credentials: email and password are
\* undefined at the server, which equals neither expected string.
NoCredentials == [email |-> "", password |-> ""]

Credentials ==
  {NoCredentials,
   [email |-> "test@example.com", password |-> "password123"],
   [email |-> "test@example.com", password |-> "wrong"]}

\* Variant of the credential check that forgets the password.
serverLogin_EmailOnly(body) == body.email = "test@example.com"

\* POST /login of routes/auth.ts: TRUE sets the cookie and answers 200,
\* FALSE answers 401.
serverLogin(body) ==
  body.email = "test@example.com" /\ body.password = "password123"

\* The answer of POST /login: res.cookie and 200, or status 401.
postLogin(body) ==
  IF serverLogin(body)
  THEN [body |-> body, status |-> 200, setCookie |-> TRUE]
  ELSE [body |-> body, status |-> 401, setCookie |-> FALSE]

\* What a client may send as its authToken cookie: nothing, an empty value,
\* the token the server signed, and tokens that do not verify.
CookieValues ==
  {NullRef, Some(""), Some("jwt-valid"), Some("jwt-expired"), Some("jwt-forged")}

\* jwt.verify returns for a token the server signed that has not expired,
\* and throws for every other string.
jwtVerify(token) == token = "jwt-valid"

\* Variant of the middleware without the test for a missing token.
authenticateUser_NoMissingTest(token) ==
  IF jwtVerify(IF token = NullRef THEN "" ELSE token[1])
  THEN [status |-> 0, next |-> TRUE]
  ELSE [status |-> 403, next |-> FALSE]

\* The authenticateUser middleware for the cookie value req.cookies.authToken:
\* the status it answers with (0: it sends no answer) and whether it calls
\* next().
authenticateUser(token) ==
  IF ~Truthy(token) THEN [status |-> 401, next |-> FALSE]
  ELSE IF jwtVerify(token[1]) THEN [status |-> 0, next |-> TRUE]
  ELSE [status |-> 403, next |-> FALSE]

AuthChecks == {"setAuthenticated", "loginUser"}

\* The slice state a page load starts from.
SliceAtLoad ==
  IF authCheck = "setAuthenticated" THEN initialState ELSE cookieInitialState

CookieOp(type) == AuthRecord([type |-> type, token |-> ""])

\* GET /api/auth/validate answers 200, which takes a valid cookie.
ValidateOk ==
  /\ net.validate = "pending"
  /\ cookie
  /\ IF authCheck = "setAuthenticated"
     THEN /\ auth' = validateThen(auth)
          /\ net' = [net EXCEPT !.validate = "idle"]
     ELSE /\ auth' = auth
          /\ net' = [net EXCEPT !.validate = "idle",
                                !.login = @ \cup {NoCredentials}]
  /\ CookieOp("validateOk")
  /\ UNCHANGED <<todoVars, storage, ctxToken, cookie, authCheck, app, path,
                 formPc>>

\* The probe is rejected: 401 or 403 from the server, or no answer at all.
ValidateFail ==
  /\ net.validate = "pending"
  /\ auth' = validateCatch(auth)
  /\ net' = [net EXCEPT !.validate = "idle"]
  /\ CookieOp("validateFail")
  /\ UNCHANGED <<todoVars, storage, ctxToken, cookie, authCheck, app, path,
                 formPc>>

\* dispatch(loginUser(credentials)): the request leaves.
LoginUserStart(c) ==
  /\ authCheck = "loginUser"
  /\ c \notin net.login
  /\ net' = [net EXCEPT !.login = @ \cup {c}]
  /\ CookieOp("loginStart")
  /\ UNCHANGED <<todoVars, storage, auth, ctxToken, cookie, authCheck, app,
                 path, formPc>>

\* The server accepted the credentials: cookie set, loginUser.fulfilled.
LoginUserOk(c) ==
  /\ c \in net.login
  /\ postLogin(c).status = 200
  /\ cookie' = (cookie \/ postLogin(c).setCookie)
  /\ auth' = loginUserFulfilled(auth)
  /\ net' = [net EXCEPT !.login = @ \ {c}, !.reply = postLogin(c)]
  /\ CookieOp("loginOk")
  /\ UNCHANGED <<todoVars, storage, ctxToken, authCheck, app, path, formPc>>

\* loginUser.rejected: the server answered 401, or the request was lost
\* before it reached the server, or the answer was cut short after its headers.
LoginUserFail(c) ==
  /\ c \in net.login
  /\ \E reached \in BOOLEAN :
       IF reached
       THEN /\ cookie' = (cookie \/ postLogin(c).setCookie)
            /\ net' = [net EXCEPT !.login = @ \ {c}, !.reply = postLogin(c)]
       ELSE /\ cookie' = cookie
            /\ net' = [net EXCEPT !.login = @ \ {c}]
  /\ CookieOp("loginFail")
  /\ UNCHANGED <<todoVars, storage, auth, ctxToken, authCheck, app, path,
                 formPc>>

\* dispatch(logoutUser()): the request leaves.
LogoutUserStart ==
  /\ authCheck = "loginUser"
  /\ net.logout = "idle"
  /\ net' = [net EXCEPT !.logout = "pending"]
  /\ CookieOp("logoutStart")
  /\ UNCHANGED <<todoVars, storage, auth, ctxToken, cookie, authCheck, app,
                 path, formPc>>

\* POST /logout cleared the cookie: logoutUser.fulfilled.
LogoutUserOk ==
  /\ net.logout = "pending"
  /\ cookie' = FALSE
  /\ auth' = logoutUserFulfilled(auth)
  /\ net' = [net EXCEPT !.logout = "idle"]
  /\ CookieOp("logoutOk")
  /\ UNCHANGED <<todoVars, storage, ctxToken, authCheck, app, path, formPc>>

\* logoutUser.rejected: the request or its answer was lost.
LogoutUserFail ==
  /\ net.logout = "pending"
  /\ cookie' \in {cookie, FALSE}
  /\ net' = [net EXCEPT !.logout = "idle"]
  /\ CookieOp("logoutFail")
  /\ UNCHANGED <<todoVars, storage, auth, ctxToken, authCheck, app, path,
                 formPc>>

\* maxAge of the cookie ran out.
CookieExpire ==
  /\ cookie
  /\ cookie' = FALSE
  /\ CookieOp("expire")
  /\ UNCHANGED <<todoVars, storage, auth, ctxToken, net, authCheck, app, path,
                 formPc>>

\* Some client sends a request with cookie c to a route behind
\* authenticateUser; the handler runs when the middleware calls next().
GuardedRequest(c) ==
  /\ net' = [net EXCEPT !.guarded =
                [cookie |-> c, status |-> authenticateUser(c).status,
                 handled |-> authenticateUser(c).next]]
  /\ UNCHANGED <<todoVars, authVars, storage, cookie, authCheck, app, path,
                 formPc>>

\* login and logout of the token slice, which useAuthCheck.ts runs with.
TokenLogin(t) == authCheck = "setAuthenticated" /\ Login(t)
TokenLogout == authCheck = "setAuthenticated" /\ Logout

\* The page is loaded again: pending calls are dropped, the store is created
\* from its initial state and useAuthCheck sends the probe.
PageLoad ==
  /\ auth' = SliceAtLoad
  /\ net' = [NetIdle EXCEPT !.validate = "pending"]
  /\ CookieOp("load")
  /\ UNCHANGED <<todoVars, storage, ctxToken, cookie, authCheck, app, path,
                 formPc>>

\* Both useAuthCheck variants right after mount, the probe on its way, with
\* or without a cookie and a token left in localStorage.
InitCookie ==
  /\ variant = "useReducerHook"
  /\ strictMode = FALSE
  /\ \E tok \in {NullRef, Some("fake-jwt-token-12345")} :
       storage = [todos |-> NullRef, authToken |-> tok]
  /\ TodoBoot
  /\ authCheck \in AuthChecks
  /\ auth = SliceAtLoad
  /\ ctxToken = NullRef
  /\ cookie \in BOOLEAN
  /\ authOp = NoAuthOp /\ authPrev = NoAuthOp
  /\ sessionBefore = Session
  /\ net = [NetIdle EXCEPT !.validate = "pending"]
  /\ app = "redux" /\ path = "/" /\ formPc = "idle"

NextCookie ==
  \/ ValidateOk
  \/ ValidateFail
  \/ \E c \in Credentials : LoginUserStart(c)
  \/ \E c \in Credentials : LoginUserOk(c)
  \/ \E c \in Credentials : LoginUserFail(c)
  \/ LogoutUserStart
  \/ LogoutUserOk
  \/ LogoutUserFail
  \/ CookieExpire
  \/ \E c \in CookieValues : GuardedRequest(c)
  \/ TokenLogin("fake-jwt-token-12345")
  \/ TokenLogout
  \/ PageLoad

SpecCookie == InitCookie /\ [][NextCookie]_vars

\* ------------------------------------------------- router and login form
\* Which components are wired together:
\*   "redux"   - login form, route guard and Dashboard all use the Redux slice;
\*   "context" - all three use AuthContext, the guard through its prop;
\*   "mixed"   - LoginForm.tsx logs in through AuthContext while
\*               ProtectedRoute.tsx and Dashboard.tsx use the Redux slice,
\*               under an App that mounts both providers.
Apps == {"redux", "context", "mixed"}
Paths == {"/", "/about", "/login", "/dashboard"}

\* Variant of the guard that renders its children for everybody.
ProtectedRoute_AlwaysChildren(isAuthenticated, children) == children

\* The guard: its children, or <Navigate to="/login" />.
ProtectedRoute(isAuthenticated, children) ==
  IF isAuthenticated THEN children ELSE "/login"

\* The isAuthenticated the guard reads for slice a and AuthContext token c.
Guard(a, c) == IF app = "context" THEN Truthy(c) ELSE a.isAuthenticated
GuardAuth == Guard(auth, ctxToken)

\* The route shown after a navigation to p.
Route(p, isAuthenticated) ==
  IF p = "/dashboard" THEN ProtectedRoute(isAuthenticated, p) ELSE p

\* AuthProvider is mounted.
HasProvider == app # "redux"

\* The tokens dummyApiLogin resolves with.
FormTokens ==
  IF app = "redux" THEN {"uuid-1", "uuid-2"} ELSE {"fake-jwt-token-12345"}

\* login(response.token) of the form: the stores and localStorage after it.
formLogin(t) ==
  IF app = "redux"
  THEN [auth |-> login(auth, t).auth, ctx |-> ctxToken,
        storage |-> login(auth, t).storage]
  ELSE [auth |-> auth, ctx |-> Some(t),
        storage |-> AuthProviderEffect(Some(t))]

\* The Logout button of Dashboard: the stores and localStorage after it.
dashboardLogout ==
  IF app = "context"
  THEN [auth |-> auth, ctx |-> NullRef,
        storage |-> AuthProviderEffect(NullRef)]
  ELSE [auth |-> logout(auth).auth, ctx |-> ctxToken,
        storage |-> logout(auth).storage]

\* Variant of the catch block that also signs the user out.
onSubmitCatch_SignsOut(s) ==
  [s EXCEPT !.auth = logout(s.auth).auth, !.ctx = NullRef,
            !.storage = removeItem("authToken"),
            !.path = "/", !.formPc = "idle"]

\* Variant of the catch block that calls the API again.
onSubmitCatch_Retries(s) == [s EXCEPT !.formPc = "pending"]

\* catch block of onSubmit: console.error and navigate('/').
onSubmitCatch(s) == [s EXCEPT !.path = "/", !.formPc = "idle"]

\* The form is submitted on /login: dummyApiLogin is called.
Submit ==
  /\ path = "/login"
  /\ formPc = "idle"
  /\ formPc' = "pending"
  /\ AuthRecord([type |-> "submit", token |-> ""])
  /\ UNCHANGED <<todoVars, storage, auth, ctxToken, cookie, net, authCheck,
                 app, path>>

\* The awaited call resolves: login(response.token), navigate('/dashboard').
ApiResolve(t) ==
  /\ formPc = "pending"
  /\ t \in FormTokens
  /\ auth' = formLogin(t).auth
  /\ ctxToken' = formLogin(t).ctx
  /\ storage' = formLogin(t).storage
  /\ path' = Route("/dashboard", Guard(formLogin(t).auth, formLogin(t).ctx))
  /\ formPc' = "idle"
  /\ AuthRecord([type |-> "resolved", token |-> t])
  /\ UNCHANGED <<todoVars, cookie, net, authCheck, app>>

\* The awaited call rejects: the catch block.
ApiReject ==
  /\ formPc = "pending"
  /\ LET s == onSubmitCatch([auth |-> auth, ctx |-> ctxToken,
                             storage |-> storage, path |-> path,
                             formPc |-> formPc])
     IN  /\ auth' = s.auth
         /\ ctxToken' = s.ctx
         /\ storage' = s.storage
         /\ path' = Route(s.path, Guard(s.auth, s.ctx))
         /\ formPc' = s.formPc
  /\ AuthRecord([type |-> "rejected", token |-> ""])
  /\ UNCHANGED <<todoVars, cookie, net, authCheck, app>>

\* Logout is clicked on the Dashboard: logout, then navigate('/').
DashboardLogout ==
  /\ path = "/dashboard"
  /\ auth' = dashboardLogout.auth
  /\ ctxToken' = dashboardLogout.ctx
  /\ storage' = dashboardLogout.storage
  /\ path' = Route("/", Guard(dashboardLogout.auth, dashboardLogout.ctx))
  /\ AuthRecord([type |-> "dashLogout", token |-> ""])
  /\ UNCHANGED <<todoVars, cookie, net, authCheck, app, formPc>>

\* A link is followed or a URL entered.
Navigate(p) ==
  /\ path' = Route(p, GuardAuth)
  /\ AuthRecord([type |-> "navigate", token |-> p])
  /\ UNCHANGED <<todoVars, storage, auth, ctxToken, cookie, net, authCheck,
                 app, formPc>>

\* The page is loaded again at the current URL: a pending submission is
\* gone, the store and AuthProvider start again from localStorage.
AppLoad ==
  /\ auth' = initialState
  /\ ctxToken' = IF HasProvider THEN getItem("authToken") ELSE NullRef
  /\ storage' = IF HasProvider THEN AuthProviderEffect(getItem("authToken"))
                ELSE storage
  /\ path' = Route(path, Guard(initialState,
                               IF HasProvider THEN getItem("authToken")
                               ELSE NullRef))
  /\ formPc' = "idle"
  /\ AuthRecord([type |-> "load", token |-> ""])
  /\ UNCHANGED <<todoVars, cookie, net, authCheck, app>>

\* Every wiring, loaded at every URL over every 'authToken' entry.
InitApp ==
  /\ variant = "useReducerHook"
  /\ strictMode = FALSE
  /\ \E tok \in {NullRef} \cup {Some(t) : t \in Tokens} :
       storage = [todos |-> NullRef, authToken |-> tok]
  /\ TodoBoot
  /\ app \in Apps
  /\ auth = initialState
  /\ ctxToken = IF HasProvider THEN getItem("authToken") ELSE NullRef
  /\ cookie = FALSE /\ net = NetIdle /\ authCheck = "setAuthenticated"
  /\ authOp = NoAuthOp /\ authPrev = NoAuthOp
  /\ sessionBefore = Session
  /\ \E p \in Paths : path = Route(p, GuardAuth)
  /\ formPc = "idle"

NextApp ==
  \/ Submit
  \/ \E t \in Tokens : ApiResolve(t)
  \/ ApiReject
  \/ DashboardLogout
  \/ \E p \in Paths : Navigate(p)
  \/ AppLoad

SpecApp == InitApp /\ [][NextApp]_vars

\* The promise onSubmit awaits is settled: dummyApiLogin's timer fires, or the
\* request that replaces it is answered, as long as the page stays loaded.
ApiSettles == (\E t \in Tokens : ApiResolve(t)) \/ ApiReject

SpecAppLive == SpecApp /\ WF_vars(ApiSettles)

\* ---------------------------------------------------------------- claims
DistinctIds(l) == \A i, j \in DOMAIN l : i # j => l[i].id # l[j].id
HasId(l, id) == \E i \in DOMAIN l : l[i].id = id

\* C1: after any sequence of ADDs, also two at the same reading of the
\* clock, the ids of the tasks in the list are pairwise distinct.
C1_IdsPairwiseDistinct ==
  (pc = "ready" /\ lastOp.type = "ADD") => DistinctIds(state)

\* C2: after every ADD, TOGGLE or REMOVE the 'todos' entry of localStorage
\* is the serialization of the resulting in-memory list.
C2_PersistedAfterTransition ==
  (pc = "ready" /\ lastOp.type \in ListOps)
    => getItem("todos") = Some(JSONstringify(state))

\* C3: login(t) followed by a restart over the same storage yields
\* isAuthenticated = true and token = t.
C3_LoginThenRestart ==
  (authOp.type = "restart" /\ authPrev.type = "login")
    => auth = [token |-> Some(authPrev.token), isAuthenticated |-> TRUE]

C3_Witness ==
  /\ authOp.type = "restart"
  /\ authPrev = [type |-> "login", token |-> "uuid-1"]
  /\ auth.token = Some("uuid-1")

\* C4: logout() followed by a restart over the same storage yields
\* isAuthenticated = false and token = null.
C4_LogoutThenRestart ==
  (authOp.type = "restart" /\ authPrev.type = "logout")
    => auth = [token |-> NullRef, isAuthenticated |-> FALSE]

C4_Witness ==
  /\ authOp.type = "restart" /\ authPrev.type = "logout"
  /\ ~auth.isAuthenticated
  /\ getItem("authToken") = NullRef

\* C5: in every reachable state of the token-based session, isAuthenticated
\* is true exactly when token is not null.
C5_AuthenticatedIffToken ==
  auth.isAuthenticated <=> (auth.token # NullRef)

C5_Witness ==
  /\ authOp.type = "logout" /\ authPrev.type = "login"
  /\ ~auth.isAuthenticated /\ auth.token = NullRef

\* C6: TOGGLE(id) applied twice in succession gives back the list it started
\* from: same ids, texts, order and completed values.
C6_ToggleTwice ==
  (pc = "ready" /\ lastOp.type = "TOGGLE" /\ run = 2) => state = runBase

C6_Witness ==
  /\ pc = "ready" /\ lastOp.type = "TOGGLE" /\ run = 2
  /\ HasId(state, lastOp.id)
  /\ before # state

\* C7: REMOVE(id) applied to the result of REMOVE(id) leaves that result
\* unchanged.
C7_RemoveTwice ==
  (pc = "ready" /\ lastOp.type = "REMOVE" /\ run = 2) => state = before

C7_Witness ==
  /\ pc = "ready" /\ lastOp.type = "REMOVE" /\ run = 2
  /\ HasId(runBase, lastOp.id)
  /\ state # <<>>

\* C8: serializing the list and feeding the parsed text through LOAD gives
\* the list back, whatever the list was before LOAD.
C8_LoadRoundTrip ==
  pc = "ready" =>
    LET parsed == JSONparse(JSONstringify(state)) IN
    /\ parsed.ok
    /\ \A other \in {<<>>, before, runBase} :
         todoReducer(other, [type |-> "LOAD", payload |-> parsed.value], clock)
           = state

C8_Witness ==
  /\ pc = "ready" /\ variant = "useReducerLoad" /\ lastOp.type = "LOAD"
  /\ Len(state) = 2 /\ state[1].completed /\ ~state[2].completed
  /\ state[1].text # state[2].text
  /\ getItem("todos") = Some(JSONstringify(state))

\* C9: n accepted ADDs dispatched in a row on a list of length k give a list
\* of length k + n.
C9_AddsAllApplied ==
  (pc = "ready" /\ addRun > 0) => Len(state) = addBase + addRun

C9_Witness ==
  /\ pc = "ready" /\ addRun = 2 /\ addBase = 1 /\ Len(state) = 3

\* C10: with an unparseable payload under 'todos' at startup no error
\* propagates out of initialization and the list starts empty.
C10_CorruptPayloadStartsEmpty == pc # "crashed"

\* C11: when startup has run to its end over a 'todos' entry that holds the
\* serialization of a list L, the list is L and the entry still holds L, also
\* when the mount effects run twice; over an absent entry the list is empty.
C11_StartupKeepsPersistedList ==
  (pc = "ready" /\ lastOp.type \in {"NONE", "LOAD"} /\ lastSubmit = "none") =>
    IF bootStored = NullRef THEN state = <<>>
    ELSE JSONparse(bootStored[1]).ok =>
           /\ state = JSONparse(bootStored[1]).value
           /\ getItem("todos") = bootStored

\* C19: every task in the list has a text that is non-empty after trimming,
\* and a rejected submission leaves the list unchanged.
C19_BlankTextNeverStored ==
  /\ \A i \in DOMAIN state : Trim(state[i].text) # ""
  /\ lastSubmit = "rejected" => state = submitBase

C19_Witness ==
  /\ pc = "ready" /\ lastSubmit = "rejected"
  /\ Len(state) = 2 /\ state[2].text = " b"

LoggedOut == [token |-> NullRef, isAuthenticated |-> FALSE]

\* C12: logout() on a session that is already unauthenticated (token null,
\* flag false, no stored entry) leaves all three as they were.
C12_LogoutWhenLoggedOut ==
  (authOp.type = "logout" /\ sessionBefore.auth = LoggedOut
     /\ sessionBefore.stored = NullRef)
    => auth = sessionBefore.auth /\ getItem("authToken") = sessionBefore.stored

C12_Witness ==
  /\ authOp.type = "logout" /\ authPrev.type = "logout"
  /\ sessionBefore.auth = LoggedOut /\ sessionBefore.stored = NullRef
  /\ auth = LoggedOut

\* C20: after a login or logout of either store has completed, the
\* 'authToken' entry is present exactly when the token of the Redux slice and
\* the token of AuthContext are non-null, and equals them.
C20_StorageMatchesEveryStore ==
  authOp.type \in {"login", "logout", "ctxLogin", "ctxLogout"}
    => getItem("authToken") = auth.token /\ getItem("authToken") = ctxToken

\* C13: cookie variant: whenever the startup probe GET /api/auth/validate
\* completes successfully, isAuthenticated is true once the dispatches it
\* caused are done (no login request is in flight any more).
C13_ProbeSuccessAuthenticates ==
  LET probeDone == authOp.type = "validateOk"
      dispatchDone == /\ authPrev.type = "validateOk"
                      /\ authOp.type \in {"loginOk", "loginFail"}
  IN  ((probeDone \/ dispatchDone) /\ net.login = {}) => auth.isAuthenticated

\* C14: whenever the startup probe fails, isAuthenticated is false
\* afterwards, whatever the session was before.
C14_ProbeFailureSignsOut ==
  authOp.type = "validateFail" => ~auth.isAuthenticated

C16_FailedLoginKeepsSession ==
  authOp.type = "rejected"
    => /\ auth = sessionBefore.auth
       /\ ctxToken = sessionBefore.ctx
       /\ getItem("authToken") = sessionBefore.stored
       /\ formPc = "idle"

C16_Witness ==
  /\ authOp.type = "rejected" /\ authPrev.type = "submit"
  /\ sessionBefore.stored # NullRef /\ getItem("authToken") # NullRef
  /\ path = "/"

\* C17: the Dashboard route is shown only while the isAuthenticated the
\* guard reads is true, and a navigation to /dashboard while it is false
\* ends at /login.
C17_DashboardOnlyWhenAuthenticated ==
  /\ path = "/dashboard" => GuardAuth
  /\ (authOp = [type |-> "navigate", token |-> "/dashboard"] /\ ~GuardAuth)
       => path = "/login"

C17_Witness ==
  /\ authOp = [type |-> "navigate", token |-> "/dashboard"]
  /\ ~GuardAuth /\ path = "/login"

\* C18: after a submission of the login form has completed successfully the
\* isAuthenticated the guard reads is true and the Dashboard is shown.
C18_LoginReachesDashboard ==
  authOp.type = "resolved" => GuardAuth /\ path = "/dashboard"

\* C21: isAuthenticated turns true only in a login (the reducer, or
\* loginUser.fulfilled) or when the store is created at page load over a
\* token found in localStorage; no other operation turns it true.
C21_AuthenticatedOnlyByLoginOrRestore ==
  [][(~auth.isAuthenticated /\ auth'.isAuthenticated)
       => \/ authOp'.type \in {"login", "loginOk"}
          \/ /\ authOp'.type \in {"load", "restart"}
             /\ Truthy(getItem("authToken"))]_vars

\* C22: ids are assigned in strictly increasing order of creation: the id an
\* ADD assigns is larger than the id of every task in the list, and larger
\* than the id of a task that the transition before it removed.
C22_IdsStrictlyIncreasing ==
  [][addRun' > addRun        \* the step is an ADD
       => /\ \A i \in DOMAIN state : state[i].id < lastOp'.id
          /\ (lastOp.type = "REMOVE" /\ HasId(before, lastOp.id))
               => lastOp.id < lastOp'.id]_vars

\* C23: POST /login answers 200 and sets the authToken cookie exactly when
\* email and password both match the accepted credentials; every other
\* request is answered 401 and sets no cookie.
C23_CookieExactlyOnMatch ==
  /\ net.reply # NoReply =>
       LET r == net.reply IN
       IF r.body.email = "test@example.com" /\ r.body.password = "password123"
       THEN r.status = 200 /\ r.setCookie
       ELSE r.status = 401 /\ ~r.setCookie
  /\ authOp.type = "loginOk" => cookie
  /\ (authOp.type = "loginFail" /\ cookie # sessionBefore.cookie) =>
       net.reply.setCookie

C23_Witness ==
  /\ authOp.type = "loginFail"
  /\ net.reply.body = [email |-> "test@example.com", password |-> "wrong"]
  /\ net.reply.status = 401 /\ ~cookie

\* C24: ADD(text) on a list L gives L with exactly one task appended at the
\* end, whose text is the payload and whose completed is false; every task of
\* L keeps its position, id, text and completed.
C24_AddAppendsOne ==
  (pc = "ready" /\ lastOp.type = "ADD")
    => /\ Len(state) = Len(before) + 1
       /\ \A i \in DOMAIN before : state[i] = before[i]
       /\ state[Len(state)].text = lastOp.text
       /\ state[Len(state)].completed = FALSE

C24_Witness ==
  /\ pc = "ready" /\ lastOp.type = "ADD" /\ lastOp.text = " b"
  /\ Len(before) = 2 /\ before[1].completed /\ ~before[2].completed
  /\ Len(state) = 3

\* C25: TOGGLE(id) leaves the list unchanged when no task has that id, and
\* otherwise flips the completed flag of exactly one task; ids, texts, order
\* and the completed flags of all other tasks stay as they were.
C25_ToggleFlipsExactlyOne ==
  (pc = "ready" /\ lastOp.type = "TOGGLE")
    => IF ~HasId(before, lastOp.id) THEN state = before
       ELSE /\ Len(state) = Len(before)
            /\ \A i \in DOMAIN before :
                 /\ state[i].id = before[i].id
                 /\ state[i].text = before[i].text
            /\ Cardinality({i \in DOMAIN before :
                              state[i].completed # before[i].completed}) = 1
            /\ \A i \in DOMAIN before :
                 before[i].id # lastOp.id
                   => state[i].completed = before[i].completed

\* The positions of l that REMOVE(id) keeps.
Kept(l, id) == {i \in DOMAIN l : l[i].id # id}

\* C26: REMOVE(id) gives exactly the tasks whose id differs from id, in
\* their original relative order and with all fields unchanged; when no task
\* has that id the list is unchanged.
C26_RemoveKeepsOthersInOrder ==
  (pc = "ready" /\ lastOp.type = "REMOVE")
    => /\ Len(state) = Cardinality(Kept(before, lastOp.id))
       /\ \A i \in Kept(before, lastOp.id) :
            state[Cardinality({j \in Kept(before, lastOp.id) : j <= i})]
              = before[i]
       /\ ~HasId(before, lastOp.id) => state = before

C26_Witness ==
  /\ pc = "ready" /\ lastOp.type = "REMOVE"
  /\ Len(before) = 3 /\ before[2].id = lastOp.id /\ before[1].id # lastOp.id
  /\ before[3].id # lastOp.id
  /\ state = <<before[1], before[3]>>

C28_NoLoginAfterLogout ==
  (authPrev.type = "dashLogout" /\ authOp.type # "submit")
    => ~GuardAuth /\ getItem("authToken") = NullRef

\* C29 as stated: the middleware passes a request on only when the cookie is
\* present and verifies; it answers 401 when the cookie is absent and 403
\* when verification fails, and then the handler is not reached.
C29_GuardAsStated ==
  LET g == net.guarded
      verifies == g.cookie # NullRef /\ jwtVerify(g.cookie[1])
  IN  g # NoGuarded =>
        /\ g.handled <=> verifies
        /\ g.cookie = NullRef => g.status = 401
        /\ (g.cookie # NullRef /\ ~verifies) => g.status = 403
        /\ g.status \in {401, 403} => ~g.handled

\* C29, amended: the middleware passes a request on only when the cookie is
\* present and verifies; it answers 401 when the cookie is absent or its
\* value is empty, and 403 when a non-empty value fails verification; in
\* both cases the handler is not reached.
C29_GuardRejects ==
  LET g == net.guarded
      missing == g.cookie = NullRef \/ g.cookie = Some("")
      verifies == ~missing /\ jwtVerify(g.cookie[1])
  IN  g # NoGuarded =>
        /\ g.handled <=> verifies
        /\ missing => g.status = 401
        /\ (~missing /\ ~verifies) => g.status = 403
        /\ g.status \in {401, 403} => ~g.handled

C29_Witness ==
  /\ net.guarded.cookie = Some("") /\ net.guarded.status = 401
  /\ ~net.guarded.handled

\* The submission took the success branch: the store the form logs in to
\* holds the returned token and 'authToken' holds it too.
LoginApplied ==
  /\ authOp.type = "resolved" /\ formPc = "idle"
  /\ getItem("authToken") = Some(authOp.token)
  /\ IF app = "redux"
     THEN auth.isAuthenticated /\ auth.token = Some(authOp.token)
     ELSE ctxToken = Some(authOp.token)

\* The submission took the failure branch.
LoginFailed == authOp.type = "rejected" /\ formPc = "idle"

\* The page was loaded again, which drops the pending call.
PageGone == authOp.type = "load" /\ formPc = "idle"

\* C30: a submission that onSubmit has taken up eventually completes, given
\* that the awaited call is eventually settled: the session becomes
\* authenticated with the returned token persisted, or the failure branch is
\* taken; it stays pending only until then, unless the page is loaded again.
C30_SubmissionCompletes ==
  (formPc = "pending") ~> (LoginApplied \/ LoginFailed \/ PageGone)

C30_Witness ==
  /\ LoginApplied /\ authPrev.type = "submit"
  /\ sessionBefore.stored = NullRef

====
